---- MODULE Spec2Model ----
(***************************************************************************)
(* Model of docs/python/docbuilder.py: the Path helper, the documentation  *)
(* tree built by DocBuilder._tree and the HTML renderer DocBuilder.html.   *)
(*                                                                         *)
(* A Python string is a sequence of one-character strings; fixed pieces of *)
(* markup are kept as single elements ("<pre>" is one element).  A dict is *)
(* a function; the tree of nested dicts is a heap of nodes (a sequence),   *)
(* a node's 'children' dict mapping a segment to the index of the child.   *)
(***************************************************************************)
EXTENDS Integers, Sequences, FiniteSets, TLC

VARIABLES
    pc,           \* position of the running call
    p, q,         \* Path operands of common_parent
    parent,       \* p.common_parent(q)
    again,        \* p.common_parent(q).common_parent(p)
    blocks,       \* DocBuilder._blocks
    iterOrder,    \* iteration order of the interpreter's dicts (by key)
    tree,         \* the heap of tree nodes built by _tree
    root,         \* html: root
    stack,        \* html: stack (node indices)
    popped,       \* html: the nodes popped so far, in order
    menu,         \* html: menu
    mainContent,  \* html: mainContent
    out,          \* the text written to the output file
    log           \* warnings and other diagnostics emitted

vars == <<pc, p, q, parent, again, blocks, iterOrder, tree, root, stack,
          popped, menu, mainContent, out, log>>

----------------------------------------------------------------------------
(* Bounds *)

MaxLen == 4        \* longest path string of the common_parent inputs
MaxBlocks == 3     \* most blocks in a parsed file
MaxParams == 5     \* most parameters of a documented method

----------------------------------------------------------------------------
(* Strings *)

None == [none |-> TRUE]

Min(a, b) == IF a < b THEN a ELSE b

\* str.split(sep): never empty, "".split('.') is [""]
RECURSIVE split(_, _)
split(s, sep) ==
    IF \A i \in 1..Len(s) : s[i] # sep
    THEN <<s>>
    ELSE LET i == CHOOSE k \in 1..Len(s) :
                      s[k] = sep /\ \A j \in 1..(k - 1) : s[j] # sep
         IN  <<SubSeq(s, 1, i - 1)>> \o split(SubSeq(s, i + 1, Len(s)), sep)

Digits == <<"0", "1", "2", "3", "4", "5", "6", "7", "8", "9">>

\* '%i' % n for n >= 0
RECURSIVE IntToStr(_)
IntToStr(n) ==
    IF n < 10 THEN <<Digits[n + 1]>>
    ELSE IntToStr(n \div 10) \o <<Digits[(n % 10) + 1]>>

----------------------------------------------------------------------------
(* class Path *)

\* Path.append: the new value of self._path
append(path, node) ==
    IF path = <<>> THEN path \o node ELSE path \o <<".">> \o node

\* the for loop of Path.common_parent over zip(segments, segments)
RECURSIVE common_parent_loop(_, _, _, _)
common_parent_loop(s1, s2, i, par) ==
    IF i > Min(Len(s1), Len(s2)) THEN par
    ELSE IF s1[i] = s2[i]
         THEN common_parent_loop(s1, s2, i + 1, append(par, s1[i]))
         ELSE par

\* a common_parent that skips a mismatch instead of returning
RECURSIVE common_parent_skip(_, _, _, _)
common_parent_skip(s1, s2, i, par) ==
    IF i > Min(Len(s1), Len(s2)) THEN par
    ELSE IF s1[i] = s2[i]
         THEN common_parent_skip(s1, s2, i + 1, append(par, s1[i]))
         ELSE common_parent_skip(s1, s2, i + 1, par)

common_parent_mutant(self, path) ==
    common_parent_skip(split(self, "."), split(path, "."), 1, <<>>)

common_parent(self, path) ==
    common_parent_loop(split(self, "."), split(path, "."), 1, <<>>)

\* an add_leaf loop that makes a fresh node at every step, present or not
RECURSIVE add_leaf_fresh(_, _, _, _)
add_leaf_fresh(heap, cur, segs, l) ==
    IF l >= Len(segs) THEN [heap |-> heap, node |-> cur]
    ELSE LET n == segs[l + 1]
             id == Len(heap) + 1
             linked == [heap EXCEPT ![cur].children =
                           (n :> id) @@ [k \in DOMAIN @ \ {n} |-> @[k]]]
             grown == Append(linked,
                        [node |-> None, children |-> <<>>, level |-> l])
         IN  add_leaf_fresh(grown, id, segs, l + 1)

\* an add_leaf loop that numbers the levels by the nodes made so far
RECURSIVE add_leaf_counting(_, _, _, _)
add_leaf_counting(heap, cur, segs, l) ==
    IF l >= Len(segs) THEN [heap |-> heap, node |-> cur]
    ELSE LET n == segs[l + 1] IN
         IF n \notin DOMAIN heap[cur].children
         THEN LET id == Len(heap) + 1
                  linked == [heap EXCEPT ![cur].children = (n :> id) @@ @]
                  grown == Append(linked,
                             [node |-> None, children |-> <<>>,
                              level |-> Len(heap) - 1])
              IN  add_leaf_counting(grown, id, segs, l + 1)
         ELSE add_leaf_counting(heap, heap[cur].children[n], segs, l + 1)

\* the for loop of Path.add_leaf: walks down from node cur, creating the
\* missing nodes; returns the heap and the node reached
RECURSIVE add_leaf_loop(_, _, _, _)
add_leaf_loop(heap, cur, segs, l) ==
    IF l >= Len(segs) THEN [heap |-> heap, node |-> cur]
    ELSE LET n == segs[l + 1] IN
         IF n \notin DOMAIN heap[cur].children
         THEN LET id == Len(heap) + 1
                  linked == [heap EXCEPT ![cur].children = (n :> id) @@ @]
                  grown == Append(linked,
                             [node |-> None, children |-> <<>>, level |-> l])
              IN  add_leaf_loop(grown, id, segs, l + 1)
         ELSE add_leaf_loop(heap, heap[cur].children[n], segs, l + 1)

add_leaf_mutant(self, heap, leaf) ==
    LET r == add_leaf_fresh(heap, 1, split(self, "."), 0)
    IN  [r.heap EXCEPT ![r.node].node = leaf]

\* Path.add_leaf: the tree after the call
add_leaf(self, heap, leaf) ==
    LET r == add_leaf_loop(heap, 1, split(self, "."), 0)
    IN  [r.heap EXCEPT ![r.node].node = leaf]

----------------------------------------------------------------------------
(* Blocks: the records handed over by BlockParser.next_block *)

\* the id of a block is the last segment of its path
Block(path, type, flag, line, params) ==
    [path        |-> path,
     id          |-> LET segs == split(path, ".") IN segs[Len(segs)],
     type        |-> type,
     line        |-> line,
     private     |-> (flag = "private"),
     ignore      |-> (flag = "ignore"),
     deprecated  |-> (flag = "deprecated"),
     constructor |-> FALSE,
     desc        |-> <<"{", "x", "}">>,
     requires    |-> <<>>,
     copyright   |-> None,
     override    |-> <<>>,
     returns     |-> <<>>,
     property    |-> <<>>,
     var         |-> <<>>,
     param       |-> params]

\* one parameter tag: @param {T} name  or  @param {T=} name
Param(name, optional) ==
    [name |-> <<name>>,
     type |-> [types   |-> << <<"T">> >>,
               options |-> IF optional THEN {"optional"} ELSE {}],
     desc |-> <<>>]

----------------------------------------------------------------------------
(* class DocBuilder *)

\* the converter of json(): to_str(b) = b.get()
to_str(b) == b

\* DocBuilder._tree with the converter applied to every block (None: none)
RECURSIVE tree_loop(_, _, _, _)
tree_loop(heap, bs, i, convert) ==
    IF i > Len(bs) THEN heap
    ELSE tree_loop(add_leaf(bs[i].path, heap,
                            IF convert THEN to_str(bs[i]) ELSE bs[i]),
                   bs, i + 1, convert)

\* the tree {'children': {}} is node 1 of the heap; tree['children'] is
\* then read as heap[1].children
_tree(bs, convert) == tree_loop(<<[children |-> <<>>]>>, bs, 1, convert)

\* DocBuilder._root: the path returned, or the exception raised;
\* self._blocks[0] raises IndexError on an empty list
RECURSIVE root_loop(_, _, _)
root_loop(r, bs, i) ==
    IF i > Len(bs) THEN r
    ELSE root_loop(common_parent(r, bs[i].path), bs, i + 1)

_root(bs) ==
    IF Len(bs) = 0 THEN [raise |-> "IndexError"]
    ELSE [return |-> root_loop(bs[1].path, bs, 2)]

----------------------------------------------------------------------------
(* dict iteration and sorted() *)

Alphabet == <<".", "a", "b", "c", "d", "e", "f">>

CharIndex(c) == CHOOSE i \in 1..Len(Alphabet) : Alphabet[i] = c

\* k1 < k2 as strings
StrLess(k1, k2) ==
    \E i \in 1..(Len(k1) + 1) :
        /\ i <= Len(k2)
        /\ \A j \in 1..(i - 1) : k1[j] = k2[j]
        /\ \/ i = Len(k1) + 1
           \/ CharIndex(k1[i]) < CharIndex(k2[i])

\* The order in which a Python 2 dict yields its keys is fixed for a dict
\* but arbitrary; two orders stand for it: by ascending and by descending
\* key.
IterOrders == {"ascending", "descending"}

\* d.keys(): the keys of the dict in its iteration order
keys(d, order) ==
    LET ks == DOMAIN d
        before(a, b) == IF order = "ascending" THEN StrLess(a, b)
                        ELSE StrLess(b, a)
        rank(k) == Cardinality({o \in ks : before(o, k)})
    IN  [i \in 1..Cardinality(ks) |-> CHOOSE k \in ks : rank(k) = i - 1]

\* the sort key of _children: the block's line, 1 for a node without block
line_key(heap, id) ==
    IF heap[id].node # None THEN heap[id].node.line ELSE 1

\* a sort that forgets reverse=True
sorted_forward(heap, items) ==
    LET n == Len(items)
        before(i, j) ==
            \/ line_key(heap, items[i]) < line_key(heap, items[j])
            \/ /\ line_key(heap, items[i]) = line_key(heap, items[j])
               /\ i < j
        rank(i) == Cardinality({j \in 1..n : before(j, i)})
    IN  [r \in 1..n |-> items[CHOOSE i \in 1..n : rank(i) = r - 1]]

\* sorted(items, key, reverse=True): descending by key, items with equal
\* keys staying in their order in items (the sort is stable)
sorted_reverse(heap, items) ==
    LET n == Len(items)
        before(i, j) ==
            \/ line_key(heap, items[i]) > line_key(heap, items[j])
            \/ /\ line_key(heap, items[i]) = line_key(heap, items[j])
               /\ i < j
        rank(i) == Cardinality({j \in 1..n : before(j, i)})
    IN  [r \in 1..n |-> items[CHOOSE i \in 1..n : rank(i) = r - 1]]

\* DocBuilder._children
_children(heap, id, order) ==
    LET ks == keys(heap[id].children, order)
        items == [i \in 1..Len(ks) |-> heap[id].children[ks[i]]]
    IN  sorted_reverse(heap, items)

Reverse(s) == [i \in 1..Len(s) |-> s[Len(s) + 1 - i]]

----------------------------------------------------------------------------
(* DocBuilder.html: the helpers *)

\* ' '.join(parts)
RECURSIVE join_space(_)
join_space(parts) ==
    IF parts = <<>> THEN <<>>
    ELSE IF Len(parts) = 1 THEN parts[1]
    ELSE parts[1] \o <<" ">> \o join_space(Tail(parts))

\* re.sub(r'\{(.*?)\}', r'<code>\1</code>', text)
RECURSIVE _codify(_)
_codify(text) ==
    LET close(i) == {j \in (i + 1)..Len(text) : text[j] = "}"}
        first(S) == CHOOSE j \in S : \A k \in S : j <= k
        opens == {i \in 1..Len(text) :
                     /\ text[i] = "{"
                     /\ close(i) # {}
                     /\ \A k \in (i + 1)..(first(close(i)) - 1) :
                            text[k] # "\n"}
    IN  IF opens = {} THEN text
        ELSE LET i == first(opens)
                 j == first(close(i))
             IN  SubSeq(text, 1, i - 1) \o <<"<code>">>
                   \o SubSeq(text, i + 1, j - 1) \o <<"</code>">>
                   \o _codify(SubSeq(text, j + 1, Len(text)))

\* the attributes of _tagify, attr given as the sequence of its items
RECURSIVE tag_attrs(_)
tag_attrs(attr) ==
    IF attr = <<>> THEN <<>>
    ELSE <<" ", attr[1][1], "='">> \o attr[1][2] \o <<"'">>
           \o tag_attrs(Tail(attr))

_tagify(text, tag, attr) ==
    <<"<", tag>> \o tag_attrs(attr) \o <<">">> \o text \o <<"</", tag, ">">>

\* a test that forgets the private flag
hidden_mutant(b) == b.ignore \/ b.deprecated

\* block['private'] or block['ignore'] or block['deprecated']
hidden(b) == b.private \/ b.ignore \/ b.deprecated

\* the group of a module, namespace or class in the menu, sub its content
menu_group(b, l, sub) ==
    LET ls == <<"s">> \o IntToStr(l)
        ref == ls \o <<"-">> \o b.path
    IN  _tagify(<<>>, "input", << <<"id", ref>>, <<"type", <<"checkbox">> >> >>)
          \o _tagify(b.id, "label", << <<"for", ref>> >>)
          \o _tagify(sub, "div", << <<"class", ls>> >>)

\* "<a href='#api-%s'>%s</a>" % (b.path(), b.id())
menu_link(b) ==
    <<"<a href='#api", "-">> \o b.path \o <<"'", ">">> \o b.id \o <<"</a>">>

\* _menu(n), and ''.join(_menu(c) for c in cs[i:])
RECURSIVE _menu(_, _, _)
RECURSIVE menu_join(_, _, _, _)
_menu(heap, n, order) ==
    LET b == heap[n].node
        l == heap[n].level
        sub == menu_join(heap, Reverse(_children(heap, n, order)), 1, order)
    IN  IF b = None THEN <<>>
        ELSE IF hidden(b) THEN <<>>
        ELSE IF b.type \in {"method", "var", "property"} THEN menu_link(b)
        ELSE IF b.type = "class" THEN menu_group(b, l, sub)
        ELSE IF b.type = "namespace" THEN menu_group(b, l, sub)
        ELSE IF b.type = "module" THEN menu_group(b, l, sub)
        ELSE None

menu_join(heap, cs, i, order) ==
    IF i > Len(cs) THEN <<>>
    ELSE _menu(heap, cs[i], order) \o menu_join(heap, cs, i + 1, order)

\* "<h2 id='api-%s'>%s</h2>" % (b.path(), title)
heading(b, title) ==
    <<"<h2 id='api", "-">> \o b.path \o <<"'", ">">> \o title \o <<"</h2>">>

\* the parameters after the first, each with its opening bracket
RECURSIVE code_rest(_, _)
code_rest(params, i) ==
    IF i > Len(params) THEN <<>>
    ELSE (IF "optional" \in params[i].type.options THEN <<"[">> ELSE <<>>)
           \o <<",", " ">> \o params[i].name \o code_rest(params, i + 1)

\* ''.join("]" for p in params if 'optional' in p['type']['options'])
RECURSIVE code_close(_, _)
code_close(params, i) ==
    IF i > Len(params) THEN <<>>
    ELSE (IF "optional" \in params[i].type.options THEN <<"]">> ELSE <<>>)
           \o code_close(params, i + 1)

\* the call signature of _method: code
method_code(params) ==
    IF Len(params) > 0
    THEN (IF "optional" \in params[1].type.options THEN <<"[">> ELSE <<>>)
           \o params[1].name \o code_rest(params, 2) \o code_close(params, 1)
    ELSE <<>>

RECURSIVE code_tags(_, _)
code_tags(types, i) ==
    IF i > Len(types) THEN <<>>
    ELSE <<_tagify(types[i], "code", <<>>)>> \o code_tags(types, i + 1)

\* the description cell of a parameter with its option marks
RECURSIVE option_marks(_, _)
option_marks(options, opts) ==
    IF opts = <<>> THEN <<>>
    ELSE (IF opts[1][1] \in options
          THEN <<" ">> \o _tagify(opts[1], "code", <<>>) ELSE <<>>)
           \o option_marks(options, Tail(opts))

RECURSIVE param_rows(_, _)
param_rows(params, i) ==
    IF i > Len(params) THEN <<>>
    ELSE LET pr == params[i]
             entry == <<"<td><i>">> \o pr.name \o <<"</i></td><td>">>
                        \o join_space(code_tags(pr.type.types, 1))
                        \o <<"</td>">>
             pdesc == _codify(pr.desc)
                        \o option_marks(pr.type.options,
                             << <<"optional">>, <<"nullable">>,
                                <<"non nullable">> >>)
         IN  _tagify(entry \o _tagify(pdesc, "td", <<>>), "tr", <<>>)
               \o param_rows(params, i + 1)

_method(b) ==
    LET name == heading(b, b.id) \o <<"\n">>
        params == b.param
        pre == _tagify(b.path \o <<"(">> \o method_code(params) \o <<")">>,
                       "pre", <<>>) \o <<"\n">>
        desc == <<"<br>">> \o _codify(b.desc) \o <<"\n">>
        over == IF b.override # <<>>
                THEN <<"<br>", "Overrides: ">>
                       \o _codify(b.override[1][1].name)
                ELSE <<>>
        argdesc == _tagify(_tagify(
                      <<"<th class='fifth'>arg</th><th class='fifth'>type</th><th>description</th>">>,
                      "tr", <<>>), "thead", <<>>)
                     \o param_rows(params, 1)
        args == IF Len(params) > 0
                THEN <<"<br>">> \o _tagify(argdesc, "table", <<>>) \o <<"\n">>
                ELSE <<>>
        ret == b.returns
        retdesc == _tagify(_tagify(
                      <<"<th class='fifth'>return</th><th>description</th>">>,
                      "tr", <<>>), "thead", <<>>)
                     \o _tagify(<<"<td><i>">>
                                  \o join_space(code_tags(ret[1].type.types, 1))
                                  \o <<"</i></td><td>">> \o ret[1].desc
                                  \o <<"</td>">>, "tr", <<>>)
        rets == IF Len(ret) > 0 THEN _tagify(retdesc, "table", <<>>)
                ELSE <<>>
    IN  name \o _tagify(pre \o desc \o over \o args \o rets, "div",
                        << <<"class", <<"card">> >> >>) \o <<"<br>">>

_property(b) ==
    LET name == heading(b, b.id) \o <<"\n">>
        prop == b.property[1]
        content == _tagify(prop.name, "pre", <<>>) \o <<"<br>">>
                     \o _tagify(prop.type.types[1], "code", <<>>)
                     \o <<" ">> \o _codify(prop.desc) \o <<"\n">>
    IN  name \o _tagify(content, "div", << <<"class", <<"card">> >> >>)
          \o <<"<br>">>

_var(b) ==
    LET name == heading(b, b.id) \o <<"\n">>
        var == b.var[1][1]
        content == _tagify(b.path, "pre", <<>>) \o <<"<br>">>
                     \o _tagify(var.type.types[1], "code", <<>>)
                     \o <<" ">> \o _codify(b.desc) \o <<"\n">>
    IN  name \o _tagify(content, "div", << <<"class", <<"card">> >> >>)
          \o <<"<br>">>

RECURSIVE requires_names(_, _)
requires_names(req, i) ==
    IF i > Len(req) THEN <<>>
    ELSE << <<"<code>">> \o req[i][1].name \o <<"</code>">> >>
           \o requires_names(req, i + 1)

\* "Build main content": what one visited block adds to mainContent
main_content(block) ==
    LET t == block.type
        c1 == IF t \in {"module", "namespace"}
              THEN heading(block, block.path) \o block.desc \o <<"\n", "<br>">>
                     \o (IF Len(block.requires) > 0
                         THEN <<"<br>Requires: ">>
                                \o join_space(requires_names(block.requires, 1))
                         ELSE <<>>)
                     \o (IF block.copyright # None
                         THEN <<"<br><br>">> \o block.copyright
                         ELSE <<>>)
              ELSE <<>>
        c2 == IF t = "method" \/ (t = "class" /\ block.constructor)
              THEN _method(block) ELSE <<>>
        c3 == IF t = "property" THEN _property(block) ELSE <<>>
        c4 == IF t = "var" THEN _var(block) ELSE <<>>
        c5 == IF t = "class" /\ ~block.constructor
              THEN heading(block, block.id) \o block.desc \o <<"\n", "<br>">>
              ELSE <<>>
    IN  c1 \o c2 \o c3 \o c4 \o c5

\* templates.html(name, menu, content, style), CSS being ""
templates_html(name, mn, content, style) ==
    <<"<!DOCTYPE html><html lang='en'><head>...<style>">> \o style
      \o <<"</style><title>">> \o name
      \o <<"</title></head><body>...<aside><div class='logo'>">> \o name
      \o <<"</div><nav><div>">> \o mn
      \o <<"</div></nav></aside><main>">> \o content
      \o <<"<label for='menu' id='exit'></label>...</main></body></html>">>

----------------------------------------------------------------------------
(* DocBuilder.json: the helpers *)

\* the text of one converted block
json_block(b) ==
    IF b = None THEN <<"null">>
    ELSE <<"{\"path\": \"">> \o b.path \o <<"\", \"id\": \"">> \o b.id
           \o <<"\", \"type\": \"", b.type, "\", \"line\": ">>
           \o IntToStr(b.line) \o <<"}">>

\* json.dump of a children dict (without the indentation)
RECURSIVE json_children(_, _, _)
RECURSIVE json_items(_, _, _, _)
json_children(heap, id, order) ==
    <<"{">> \o json_items(heap, id, keys(heap[id].children, order), order)
      \o <<"}">>

json_items(heap, id, ks, order) ==
    IF ks = <<>> THEN <<>>
    ELSE LET c == heap[id].children[ks[1]]
         IN  <<"\"">> \o ks[1] \o <<"\": {\"node\": ">>
               \o json_block(heap[c].node) \o <<", \"children\": ">>
               \o json_children(heap, c, order) \o <<", \"level\": ">>
               \o IntToStr(heap[c].level) \o <<"}">>
               \o (IF Len(ks) > 1 THEN <<", ">> ELSE <<>>)
               \o json_items(heap, id, Tail(ks), order)

----------------------------------------------------------------------------
(* Inputs *)

\* the paths of the blocks of a rendered file
HtmlPaths ==
    {<<"a">>, <<"a", ".", "b">>, <<"a", ".", "c">>,
     <<"a", ".", "b", ".", "d">>, <<"e">>}

\* the paths of the blocks of a file built into a tree
TreePaths ==
    HtmlPaths \cup {<<"a", "b">>, <<"e", ".", "b">>, <<"a", ".", "c", ".", "d">>}

\* the type and the flag of the blocks of a rendered file
HtmlProfiles ==
    {<<"module", "none">>, <<"module", "private">>,
     <<"class", "none">>, <<"class", "ignore">>,
     <<"method", "none">>, <<"method", "deprecated">>}

ParamNames == <<"a", "b", "c", "d", "e", "f", "g">>

\* path a is path b or lies under it, segment by segment
Nested(a, b) ==
    LET sa == split(a, ".")
        sb == split(b, ".")
    IN  Len(sb) <= Len(sa) /\ SubSeq(sa, 1, Len(sb)) = sb

\* the file documents no path twice and no declaration before one that
\* encloses it: the parser derives the path of a block from the enclosing
\* declarations it has scanned
WellNested(bs) ==
    \A i, j \in 1..Len(bs) : i < j => ~Nested(bs[i].path, bs[j].path)

DistinctPaths(bs) ==
    \A i, j \in 1..Len(bs) : bs[i].path = bs[j].path => i = j

\* the blocks a rendered file may hold at its line-th place; the line of
\* a block is its place in the file
HtmlBlocks(line) ==
    {Block(path, pf[1], pf[2], line, <<>>) :
        path \in HtmlPaths, pf \in HtmlProfiles}

\* the blocks of a file built into a tree: any order, and a path may be
\* documented twice
TreeBlocks(line) ==
    {Block(path, "method", "none", line, <<>>) : path \in TreePaths}

\* a method f with up to MaxParams parameters
MethodBlocks(line) ==
    {Block(<<"f">>, "method", "none", line,
           [i \in 1..n |-> Param(ParamNames[i], opt[i])]) :
        n \in 0..MaxParams, opt \in [1..MaxParams -> BOOLEAN]}

\* the paths of at most MaxLen characters without an empty segment
Strings(n) == UNION {[1..k -> {"a", "b", "."}] : k \in 1..n}

ValidPath(s) ==
    /\ s # <<>>
    /\ \A i \in 1..Len(split(s, ".")) : split(s, ".")[i] # <<>>

ValidPaths == {s \in Strings(MaxLen) : ValidPath(s)}

----------------------------------------------------------------------------
(* Operations *)

\* Path(p).common_parent(Path(q)), and the result's common_parent with p
CommonParent ==
    /\ pc = "path"
    /\ parent' = common_parent(p, q)
    /\ again' = common_parent(parent', p)
    /\ pc' = "path_done"
    /\ UNCHANGED <<p, q, blocks, iterOrder, tree, root, stack, popped, menu,
                   mainContent, out, log>>

\* DocBuilder.parse, one iteration of its loop: next_block returns a
\* block, which is appended
ParseNext(found, limit, nested) ==
    /\ pc \in {"new", "parse"}
    /\ Len(blocks) < limit
    /\ \E b \in found :
          /\ nested => WellNested(Append(blocks, b))
          /\ blocks' = Append(blocks, b)
    /\ pc' = "parse"
    /\ UNCHANGED <<p, q, parent, again, iterOrder, tree, root, stack, popped,
                   menu, mainContent, out, log>>

\* DocBuilder.parse, the end of its loop: next_block returns None
ParseEnd ==
    /\ pc \in {"new", "parse"}
    /\ pc' = "idle"
    /\ UNCHANGED <<p, q, parent, again, blocks, iterOrder, tree, root, stack,
                   popped, menu, mainContent, out, log>>

\* DocBuilder.json(filename)
Json ==
    /\ pc = "idle"
    /\ \E order \in IterOrders :
          /\ iterOrder' = order
          /\ tree' = _tree(blocks, TRUE)
          /\ out' = json_children(tree', 1, order)
    /\ pc' = "json_done"
    /\ UNCHANGED <<p, q, parent, again, blocks, root, stack, popped, menu,
                   mainContent, log>>

\* DocBuilder.html up to the loop: tree, root, menu, mainContent, stack
HtmlStart ==
    /\ pc = "idle"
    /\ \E order \in IterOrders :
          /\ iterOrder' = order
          /\ tree' = _tree(blocks, FALSE)
          /\ menu' = <<>>
          /\ mainContent' = <<>>
          /\ IF "raise" \in DOMAIN _root(blocks)
             THEN /\ pc' = "raised"
                  /\ root' = <<>>
                  /\ stack' = <<>>
             ELSE /\ pc' = "loop"
                  /\ root' = _root(blocks).return
                  /\ stack' = <<tree'[1].children[keys(tree'[1].children, order)[1]]>>
          /\ popped' = <<>>
    /\ UNCHANGED <<p, q, parent, again, blocks, out, log>>

\* one iteration of the while loop of DocBuilder.html
HtmlLoop ==
    /\ pc = "loop"
    /\ Len(stack) > 0
    /\ LET node == stack[Len(stack)]
           rest == SubSeq(stack, 1, Len(stack) - 1)
           block == tree[node].node
       IN  /\ popped' = Append(popped, node)
           /\ IF block # None /\ hidden(block)
              THEN /\ stack' = rest
                   /\ UNCHANGED <<menu, mainContent>>
              ELSE /\ menu' = IF block # None /\ block.type = "module"
                              THEN menu \o _menu(tree, node, iterOrder)
                              ELSE menu
                   /\ mainContent' = IF block # None
                                     THEN mainContent \o main_content(block)
                                     ELSE mainContent
                   /\ stack' = rest \o _children(tree, node, iterOrder)
    /\ UNCHANGED <<pc, p, q, parent, again, blocks, iterOrder, tree, root,
                   out, log>>

\* the arguments style and main of html(), as the drivers pass them
HtmlArgs ==
    {[style |-> <<>>, main |-> <<>>],
     [style |-> <<"img#logo{position:fixed;top:20px;right:20px;width:100px;}">>,
      main |-> <<"<img id='logo' src='../../resources/img/logo-dark.png'/>">>]}

\* the end of DocBuilder.html: the document is written
HtmlWrite ==
    /\ pc = "loop"
    /\ Len(stack) = 0
    /\ \E args \in HtmlArgs :
          out' = templates_html(root, menu, mainContent \o args.main,
                                args.style)
    /\ pc' = "done"
    /\ UNCHANGED <<p, q, parent, again, blocks, iterOrder, tree, root, stack,
                   popped, menu, mainContent, log>>

----------------------------------------------------------------------------
(* Specifications *)

InitBuilder ==
    /\ pc = "new"
    /\ p = <<>> /\ q = <<>> /\ parent = <<>> /\ again = <<>>
    /\ blocks = <<>>
    /\ iterOrder = "ascending"
    /\ tree = <<>>
    /\ root = <<>>
    /\ stack = <<>>
    /\ popped = <<>>
    /\ menu = <<>>
    /\ mainContent = <<>>
    /\ out = <<>>
    /\ log = <<>>

InitPath ==
    /\ pc = "path"
    /\ p \in ValidPaths /\ q \in ValidPaths
    /\ parent = <<>> /\ again = <<>>
    /\ blocks = <<>>
    /\ iterOrder = "ascending"
    /\ tree = <<>>
    /\ root = <<>>
    /\ stack = <<>>
    /\ popped = <<>>
    /\ menu = <<>>
    /\ mainContent = <<>>
    /\ out = <<>>
    /\ log = <<>>

\* DocBuilder().parse(f).html(out), as the drivers run it
Init == InitBuilder

Next ==
    \/ ParseNext(HtmlBlocks(Len(blocks) + 1), MaxBlocks, TRUE)
    \/ ParseEnd
    \/ HtmlStart
    \/ HtmlLoop
    \/ HtmlWrite

Spec == Init /\ [][Next]_vars

\* DocBuilder().parse(f).json(out)
NextTree ==
    \/ ParseNext(TreeBlocks(Len(blocks) + 1), MaxBlocks, FALSE)
    \/ ParseEnd
    \/ Json

SpecTree == InitBuilder /\ [][NextTree]_vars

\* the rendering of one documented method
NextMethod ==
    \/ ParseNext(MethodBlocks(Len(blocks) + 1), 1, FALSE)
    \/ ParseEnd
    \/ HtmlStart
    \/ HtmlLoop
    \/ HtmlWrite

SpecMethod == InitBuilder /\ [][NextMethod]_vars

\* Path.common_parent on two valid paths
NextPath == CommonParent

SpecPath == InitPath /\ [][NextPath]_vars

----------------------------------------------------------------------------
(* Vocabulary of the properties *)

IsPrefix(a, b) == Len(a) <= Len(b) /\ SubSeq(b, 1, Len(a)) = a

\* the segments of a path string, none for the empty path
Segments(s) == IF Len(s) = 0 THEN <<>> ELSE split(s, ".")

\* the number of leading segments on which two segment lists agree
Agree(s1, s2) ==
    CHOOSE k \in 0..Min(Len(s1), Len(s2)) :
        /\ \A i \in 1..k : s1[i] = s2[i]
        /\ k = Min(Len(s1), Len(s2)) \/ s1[k + 1] # s2[k + 1]

\* string a ends in string b at the end of b or right before a dot
AtBoundary(a, b) == Len(a) = Len(b) \/ Len(a) = 0 \/ b[Len(a) + 1] = "."

\* path a is path b or lies under it
Under(a, b) == IsPrefix(Segments(b), Segments(a))

\* the nodes of a tree below node id, each with its list of segments
RECURSIVE Nodes(_, _, _)
Nodes(heap, id, prefix) ==
    UNION {LET c == heap[id].children[k]
               here == Append(prefix, k)
           IN  {[path |-> here, id |-> c]} \cup Nodes(heap, c, here) :
           k \in DOMAIN heap[id].children}

\* the block of a node as a list: empty for None
Leaf(heap, id) == IF heap[id].node = None THEN <<>> ELSE <<heap[id].node>>

\* a tree as the nested dicts show it: for every node its keys from the
\* top, its 'node', its 'level' and the keys of its 'children'
Shape(heap) ==
    LET ns == Nodes(heap, 1, <<>>)
    IN  [path \in {n.path : n \in ns} |->
            LET id == (CHOOSE n \in ns : n.path = path).id
            IN  [node |-> Leaf(heap, id),
                 level |-> heap[id].level,
                 children |-> DOMAIN heap[id].children]]

\* the segment prefixes of the paths of a list of blocks
Prefixes(bs) ==
    UNION {{SubSeq(Segments(bs[i].path), 1, k) :
               k \in 1..Len(Segments(bs[i].path))} : i \in 1..Len(bs)}

Permute(bs, f) == [i \in 1..Len(bs) |-> bs[f[i]]]

\* the parent of a node of the tree (1 for a top-level node)
ParentOf(heap, id) ==
    CHOOSE par \in 1..Len(heap) :
        \E k \in DOMAIN heap[par].children : heap[par].children[k] = id

\* node x lies strictly below node y
RECURSIVE Below(_, _, _)
Below(heap, x, y) ==
    IF x = 1 THEN FALSE
    ELSE LET par == ParentOf(heap, x)
         IN  par = y \/ Below(heap, par, y)

\* a block flagged private, ignore or deprecated
Flagged(b) == b.private \/ b.ignore \/ b.deprecated

HiddenNode(heap, id) == heap[id].node # None /\ Flagged(heap[id].node)

\* a node is pruned when it or a node above it holds a hidden block
RECURSIVE Pruned(_, _)
Pruned(heap, id) ==
    IF id = 1 THEN FALSE
    ELSE HiddenNode(heap, id) \/ Pruned(heap, ParentOf(heap, id))

\* the nodes the loop went through past the test of the flags
Visited == SelectSeq(popped, LAMBDA id : ~HiddenNode(tree, id))

\* text s refers to the path at position k: -path' as in id='api-path'
MentionAt(s, path, k) ==
    /\ s[k] = "-"
    /\ k + Len(path) + 1 <= Len(s)
    /\ SubSeq(s, k + 1, k + Len(path)) = path
    /\ s[k + Len(path) + 1] = "'"

Mentions(s, path) ==
    \E k \in 1..(Len(s) - Len(path) - 1) : MentionAt(s, path, k)

FirstMention(s, path) ==
    CHOOSE k \in 1..Len(s) :
        MentionAt(s, path, k) /\ \A j \in 1..(k - 1) : ~MentionAt(s, path, j)

\* how often text sub occurs in text s
Count(s, sub) ==
    Cardinality({k \in 1..Len(s) :
                    /\ k + Len(sub) - 1 <= Len(s)
                    /\ SubSeq(s, k, k + Len(sub) - 1) = sub})

----------------------------------------------------------------------------
(* C1 *)

\* C1: for valid paths p and q, p.common_parent(q) is made of the leading
\* segments on which p and q agree, up to the first mismatch; its string is
\* a prefix of str(p) and of str(q) that ends at a segment boundary; and
\* taking the common parent of the result with p gives the result again.
C1_CommonParent ==
    pc = "path_done" =>
        LET k == Agree(Segments(p), Segments(q))
        IN  /\ Segments(parent) = SubSeq(Segments(p), 1, k)
            /\ Segments(parent) = SubSeq(Segments(q), 1, k)
            /\ IsPrefix(parent, p) /\ AtBoundary(parent, p)
            /\ IsPrefix(parent, q) /\ AtBoundary(parent, q)
            /\ again = parent

\* two different paths with a common parent that is neither of them
C1_Witness ==
    /\ pc = "path_done"
    /\ Len(parent) > 0
    /\ parent # p /\ parent # q
    /\ again = parent

----------------------------------------------------------------------------
(* C2, C6, C9: the tree *)

\* C2: the tree built from blocks with distinct paths has exactly one node
\* for every non-empty segment prefix of every block path and no other
\* node; the 'node' of a node is the block with exactly that path, None
\* when there is none.
C2_TreeNodes ==
    (pc = "json_done" /\ DistinctPaths(blocks)) =>
        LET ns == Nodes(tree, 1, <<>>)
        IN  /\ {n.path : n \in ns} = Prefixes(blocks)
            /\ Cardinality(ns) = Cardinality(Prefixes(blocks))
            /\ {n.id : n \in ns} = 2..Len(tree)
            /\ Cardinality(ns) = Len(tree) - 1
            /\ \A n \in ns :
                  LET own == {i \in 1..Len(blocks) :
                                 Segments(blocks[i].path) = n.path}
                  IN  IF own = {} THEN tree[n.id].node = None
                      ELSE \A i \in own : tree[n.id].node = to_str(blocks[i])

\* the tree of the paths a.b, a.c, a.b.d: a with children b and c and no
\* block, b with the one child d
C2_Witness ==
    /\ pc = "json_done"
    /\ {blocks[i].path : i \in 1..Len(blocks)} =
          {<<"a", ".", "b">>, <<"a", ".", "c">>, <<"a", ".", "b", ".", "d">>}
    /\ DOMAIN tree[1].children = {<<"a">>}
    /\ LET a == tree[1].children[<<"a">>]
       IN  /\ tree[a].node = None
           /\ DOMAIN tree[a].children = {<<"b">>, <<"c">>}
           /\ DOMAIN tree[tree[a].children[<<"b">>]].children = {<<"d">>}
           /\ tree[tree[a].children[<<"b">>]].node # None

\* C6: add_leaf makes no more nodes than the paths need, and for blocks
\* with distinct paths the add_leaf calls made in any other order give the
\* same tree: the same keys, 'node' and 'level' at every node.
C6_OrderInsensitive ==
    (pc = "json_done" /\ DistinctPaths(blocks)) =>
        /\ Len(tree) - 1 = Cardinality(Prefixes(blocks))
        /\ \A f \in Permutations(1..Len(blocks)) :
              Shape(_tree(Permute(blocks, f), TRUE)) = Shape(tree)

\* a tree in which a block was added before a block above it
C6_Witness ==
    /\ pc = "json_done"
    /\ DistinctPaths(blocks)
    /\ Len(blocks) >= 3
    /\ \E i, j \in 1..Len(blocks) :
          /\ i < j
          /\ blocks[i].path # blocks[j].path
          /\ Under(blocks[i].path, blocks[j].path)
    /\ \E n \in Nodes(tree, 1, <<>>) : tree[n.id].node = None

\* C9: when two blocks share a path the tree still gets built, with one
\* node for the path that holds the later block and keeps its children,
\* and the collision is reported.
C9_DuplicateFlagged ==
    (pc = "json_done" /\ ~DistinctPaths(blocks)) =>
        /\ {n.path : n \in Nodes(tree, 1, <<>>)} = Prefixes(blocks)
        /\ \A n \in Nodes(tree, 1, <<>>) :
              \A i \in 1..Len(blocks) :
                  (/\ Segments(blocks[i].path) = n.path
                   /\ \A j \in (i + 1)..Len(blocks) :
                         blocks[j].path # blocks[i].path)
                  => tree[n.id].node = to_str(blocks[i])
        /\ Len(log) > 0

----------------------------------------------------------------------------
(* C3, C5, C7, C8, C10: DocBuilder.html *)

\* C3: a block flagged private, ignore or deprecated, and every block at a
\* path under it, adds nothing to the menu nor to the main content.
C3_HiddenPruned ==
    \A j \in 1..Len(blocks) :
        (\E i \in 1..Len(blocks) :
            Flagged(blocks[i]) /\ Under(blocks[j].path, blocks[i].path)) =>
            /\ ~Mentions(menu, blocks[j].path)
            /\ ~Mentions(mainContent, blocks[j].path)
            /\ ~Mentions(out, blocks[j].path)

\* a finished rendering in which the loop met a hidden block that has a
\* block under it, below a module shown in the menu
C3_Witness ==
    /\ pc = "done"
    /\ Len(menu) > 0
    /\ \E i, j \in 1..Len(blocks) :
          /\ Flagged(blocks[i])
          /\ ~Flagged(blocks[j])
          /\ i # j
          /\ Under(blocks[j].path, blocks[i].path)
          /\ \E k \in 1..Len(popped) : tree[popped[k]].node = blocks[i]

\* C5: with no blocks, html does not raise and writes a document with an
\* empty menu and an empty main content.
C5_EmptyInput ==
    (Len(blocks) = 0 /\ pc \notin {"new", "idle"}) =>
        /\ pc # "raised"
        /\ (pc = "done" => Len(menu) = 0 /\ Len(mainContent) = 0)

\* the first node on the stack: the top-level node the loop starts from
StartNode == IF Len(popped) > 0 THEN popped[1] ELSE stack[1]

\* C7: the loop ends (every iteration pops a node of the tree that was not
\* popped before, and the stack holds nothing else), having gone through
\* every node of the traversed tree that is not pruned exactly once, a node before the nodes below it and
\* the nodes below it before its next sibling, siblings by ascending line
\* of their blocks; the menu lists siblings by ascending line as well.
C7_PreOrder ==
    /\ pc = "loop" =>
          /\ Len(popped) + Len(stack) <= Len(tree) - 1
          /\ \A i \in 1..Len(stack) :
                /\ stack[i] \in 2..Len(tree)
                /\ \A j \in 1..Len(popped) : popped[j] # stack[i]
    /\ pc = "done" =>
          LET V == Visited
              n == Len(V)
              live == {id \in 2..Len(tree) :
                          /\ id = StartNode \/ Below(tree, id, StartNode)
                          /\ ~Pruned(tree, id)}
          IN  /\ \A i, j \in 1..Len(popped) : popped[i] = popped[j] => i = j
              /\ {V[i] : i \in 1..n} = live
              /\ \A i, j \in 1..n : Below(tree, V[j], V[i]) => i < j
              /\ \A i, j, k \in 1..n :
                    (i < j /\ j < k /\ Below(tree, V[k], V[i]))
                        => Below(tree, V[j], V[i])
              /\ \A i, j \in 1..n :
                    (/\ i < j
                     /\ ParentOf(tree, V[i]) = ParentOf(tree, V[j])
                     /\ tree[V[i]].node # None
                     /\ tree[V[j]].node # None)
                        => tree[V[i]].node.line <= tree[V[j]].node.line
              /\ \A x, y \in live :
                    (/\ x # y
                     /\ ParentOf(tree, x) = ParentOf(tree, y)
                     /\ tree[x].node # None
                     /\ tree[y].node # None
                     /\ Mentions(menu, tree[x].node.path)
                     /\ Mentions(menu, tree[y].node.path)
                     /\ FirstMention(menu, tree[x].node.path)
                          < FirstMention(menu, tree[y].node.path))
                        => tree[x].node.line <= tree[y].node.line

\* a finished traversal that went from a node to its child and then to the
\* node's next sibling, both siblings in the menu
C7_Witness ==
    /\ pc = "done"
    /\ \E i \in 1..(Len(Visited) - 2) :
          /\ ParentOf(tree, Visited[i + 1]) = Visited[i]
          /\ ParentOf(tree, Visited[i + 2]) = ParentOf(tree, Visited[i])
          /\ tree[Visited[i]].node # None
          /\ tree[Visited[i + 2]].node # None
          /\ Mentions(menu, tree[Visited[i]].node.path)
          /\ Mentions(menu, tree[Visited[i + 2]].node.path)

\* blocks i and j of the list start with different segments
NoCommonRoot(bs) ==
    \E i, j \in 1..Len(bs) : Segments(bs[i].path)[1] # Segments(bs[j].path)[1]

\* no block at or above the path of block i is hidden
Shown(bs, i) ==
    \A j \in 1..Len(bs) : Under(bs[i].path, bs[j].path) => ~Flagged(bs[j])

\* C8: when the blocks share no first segment, the root is the empty path
\* and every top-level node is rendered with the nodes below it that are
\* not pruned.
C8_Forest ==
    (pc = "done" /\ NoCommonRoot(blocks)) =>
        /\ Len(root) = 0
        /\ \A i \in 1..Len(blocks) :
              Shown(blocks, i) => Mentions(mainContent, blocks[i].path)

\* the opening of the menu group of block b at level l
GroupEntry(b, l) ==
    <<"<", "input", " ", "id", "='", "s">> \o IntToStr(l) \o <<"-">>
      \o b.path \o <<"'">>

\* C10: every node the loop visits whose block is not hidden has exactly
\* one entry in the menu: a group for a module, namespace or class, a link
\* for a method, var or property.
C10_MenuEntries ==
    pc = "done" =>
        \A i \in 1..Len(Visited) :
            LET b == tree[Visited[i]].node
                l == tree[Visited[i]].level
            IN  b # None =>
                   IF b.type \in {"module", "namespace", "class"}
                   THEN /\ Count(menu, GroupEntry(b, l)) = 1
                        /\ Count(menu, menu_link(b)) = 0
                   ELSE /\ Count(menu, menu_link(b)) = 1
                        /\ Count(menu, GroupEntry(b, l)) = 0

----------------------------------------------------------------------------
(* C4: the call signature *)

Contains(s, sub) == Count(s, sub) > 0

\* the parameters of the one method of the file are optional as in opts
Optionals(opts) ==
    /\ Len(blocks) = 1
    /\ Len(blocks[1].param) = Len(opts)
    /\ \A i \in 1..Len(opts) :
          ("optional" \in blocks[1].param[i].type.options) = opts[i]

\* C4: the signature of f is f(a, b[, c]) when only the last of three
\* parameters is optional, f([a], b, c) when only the first is, and
\* f(a, b[, c[, d]]) when the last two of four are.
C4_Signature ==
    pc = "done" =>
        /\ Optionals(<<FALSE, FALSE, TRUE>>) =>
              Contains(mainContent,
                 <<"<", "pre", ">", "f", "(", "a", ",", " ", "b", "[", ",", " ",
                   "c", "]", ")", "</", "pre", ">">>)
        /\ Optionals(<<TRUE, FALSE, FALSE>>) =>
              Contains(mainContent,
                 <<"<", "pre", ">", "f", "(", "[", "a", "]", ",", " ", "b", ",",
                   " ", "c", ")", "</", "pre", ">">>)
        /\ Optionals(<<FALSE, FALSE, TRUE, TRUE>>) =>
              Contains(mainContent,
                 <<"<", "pre", ">", "f", "(", "a", ",", " ", "b", "[", ",", " ",
                   "c", "[", ",", " ", "d", "]", "]", ")", "</", "pre", ">">>)

====
